---- MODULE Spec2Model ----
(***************************************************************************)
(* Embedding store and similarity search of the CLIP image-search service  *)
(* (src/clip_utils.py, src/clip_utlis.py, src/main.py).                    *)
(*                                                                         *)
(* Identifiers (file names) are the integers 1..NumIds; their lexical      *)
(* order is the integer order.  Embedding vectors are short integer        *)
(* sequences (components in tenths), the score is their dot product.       *)
(* A Python dict is a sequence of entries with distinct keys, in           *)
(* insertion order.  A file is a record: whether it exists, the JSON       *)
(* top-level kind, the entries written so far, and whether the closing     *)
(* bracket has been written (closed = FALSE is a text json.loads rejects). *)
(***************************************************************************)
EXTENDS Integers, Sequences, FiniteSets, TLC

\* ------------------------------------------------------------------ bounds
NumIds == 3
MaxK == 3
MaxListLen == 2
MaxSaveLen == 2

Ids == 1..NumIds
KRange == (0 - MaxK)..MaxK

\* ------------------------------------------------------------ value domain
\* Unit vectors the encoder can answer with (2-D, components in tenths).
Vecs == { <<10, 0>>, <<0, 10>>, <<7, 7>> }

\* Optional[torch.Tensor]
None == [some |-> FALSE, v |-> <<>>]
Some(v) == [some |-> TRUE, v |-> v]

\* JSON values found at a value position of the store file.
JVec(v) == [t |-> "vec", v |-> v]
JNum == [t |-> "num", v |-> <<>>]
JStr == [t |-> "str", v |-> <<>>]
GoodVals == { JVec(v) : v \in Vecs }
BadVals == { JNum, JStr, JVec(<<10>>) }
JVals == GoodVals \cup BadVals

\* Elements of a JSON container: a key/value pair of an object, or an
\* element of an array (a record with both fields, a record lacking one
\* field, or a plain number).
Pair(fn, val) == [t |-> "pair", filename |-> fn, embedding |-> val]
NoFilename(val) == [t |-> "nofn", filename |-> 0, embedding |-> val]
NoEmbedding(fn) == [t |-> "noemb", filename |-> fn, embedding |-> JNum]
NumElem == [t |-> "num", filename |-> 0, embedding |-> JNum]

Min(a, b) == IF a <= b THEN a ELSE b
Max(a, b) == IF a >= b THEN a ELSE b

\* ------------------------------------------------------------------ files
NoFile == [exists |-> FALSE, kind |-> "none", body |-> <<>>, closed |-> FALSE]
File(kind, body, closed) ==
    [exists |-> TRUE, kind |-> kind, body |-> body, closed |-> closed]

\* json.dump(results, f) of a dict filename -> list of floats, once the
\* file is closed: the whole object text.
JsonDump(d) ==
    File("dict", [i \in 1..Len(d) |-> Pair(d[i].filename, JVec(d[i].embedding))], TRUE)

\* ------------------------------------------------------------ Python dict
HasKey(d, fn) == \E i \in 1..Len(d) : d[i].filename = fn
\* Mutant: a key that is already present keeps its first value.
DictSetFirstWins(d, fn, val) ==
    IF HasKey(d, fn) THEN d
    ELSE Append(d, [filename |-> fn, embedding |-> val])
\* d[fn] = val : a new key is appended, an existing key keeps its position.
DictSet(d, fn, val) ==
    IF HasKey(d, fn)
    THEN [i \in 1..Len(d) |-> IF d[i].filename = fn
                              THEN [filename |-> fn, embedding |-> val]
                              ELSE d[i]]
    ELSE Append(d, [filename |-> fn, embedding |-> val])

\* ----------------------------------------------------------- torch.tensor
\* torch.tensor(emb_list, dtype=torch.float32): a list of numbers gives a
\* 1-D tensor, a bare number a 0-D tensor, a string is rejected.
Tensor(dim, v) == [dim |-> dim, v |-> v]
TorchTensor(val) ==
    CASE val.t = "vec" -> [err |-> "none", t |-> Tensor(1, val.v)]
      [] val.t = "num" -> [err |-> "none", t |-> Tensor(0, <<>>)]
      [] OTHER         -> [err |-> "TypeError", t |-> Tensor(0, <<>>)]

\* -------------------------------------------------------- load_embeddings
\* Mutant: the return sits inside the loop, the store holds the first entry.
LoadDictLoopReturnsEarly(body, i, out) ==
    IF i > Len(body) THEN [err |-> "none", out |-> out]
    ELSE LET tt == TorchTensor(body[i].embedding)
         IN IF tt.err # "none" THEN [err |-> tt.err, out |-> <<>>]
            ELSE [err |-> "none", out |-> DictSet(out, body[i].filename, tt.t)]

\* The loop over raw.items() of a JSON object.
RECURSIVE LoadDictLoop(_, _, _)
LoadDictLoop(body, i, out) ==
    IF i > Len(body) THEN [err |-> "none", out |-> out]
    ELSE LET tt == TorchTensor(body[i].embedding)
         IN IF tt.err # "none" THEN [err |-> tt.err, out |-> <<>>]
            ELSE LoadDictLoop(body, i + 1, DictSet(out, body[i].filename, tt.t))

\* item["filename"] then item["embedding"] on one element of a JSON array.
ItemError(item) ==
    CASE item.t = "num"   -> "TypeError"
      [] item.t = "nofn"  -> "KeyError"
      [] item.t = "noemb" -> "KeyError"
      [] OTHER            -> "none"

\* The loop over the elements of a JSON array.
RECURSIVE LoadListLoop(_, _, _)
LoadListLoop(body, i, out) ==
    IF i > Len(body) THEN [err |-> "none", out |-> out]
    ELSE IF ItemError(body[i]) # "none"
         THEN [err |-> ItemError(body[i]), out |-> <<>>]
         ELSE LET tt == TorchTensor(body[i].embedding)
              IN IF tt.err # "none" THEN [err |-> tt.err, out |-> <<>>]
                 ELSE LoadListLoop(body, i + 1, DictSet(out, body[i].filename, tt.t))

\* json.loads(p.read_text()) followed by the normalisation, on a file that
\* exists.  json.JSONDecodeError is the error of a text that is not JSON.
LoadContent(f) ==
    IF ~f.closed THEN [err |-> "JSONDecodeError", out |-> <<>>]
    ELSE CASE f.kind = "dict" -> LoadDictLoop(f.body, 1, <<>>)
           [] f.kind = "list" -> LoadListLoop(f.body, 1, <<>>)
           [] OTHER           -> [err |-> "ValueError", out |-> <<>>]

\* ------------------------------------------------------ search_embeddings
RECURSIVE Dot(_, _)
Dot(u, v) == IF u = <<>> THEN 0 ELSE Head(u) * Head(v) + Dot(Tail(u), Tail(v))

\* text_emb @ img_emb is defined for two 1-D tensors of equal length.
CanMatmul(q, t) == t.dim = 1 /\ Len(t.v) = Len(q)

\* Mutants of the sort: ascending (reverse=True dropped), and descending
\* with ties reversed (ascending stable sort followed by a reversal).
InsertAsc(t, x) ==
    LET n == Cardinality({ i \in 1..Len(t) : t[i].score <= x.score })
    IN SubSeq(t, 1, n) \o <<x>> \o SubSeq(t, n + 1, Len(t))
InsertDescTiesReversed(t, x) ==
    LET n == Cardinality({ i \in 1..Len(t) : t[i].score > x.score })
    IN SubSeq(t, 1, n) \o <<x>> \o SubSeq(t, n + 1, Len(t))

\* results.sort(key=score, reverse=True): stable, descending.  Insertion
\* of x behind every element whose score is >= x's.
InsertDesc(t, x) ==
    LET n == Cardinality({ i \in 1..Len(t) : t[i].score >= x.score })
    IN SubSeq(t, 1, n) \o <<x>> \o SubSeq(t, n + 1, Len(t))
RECURSIVE SortDesc(_)
SortDesc(s) ==
    IF s = <<>> THEN <<>>
    ELSE InsertDesc(SortDesc(SubSeq(s, 1, Len(s) - 1)), s[Len(s)])

\* Mutants of the slice: results[:k+1] and results[-k:].
SlicePrefixPlusOne(s, k) == SubSeq(s, 1, Min(Max(k + 1, 0), Len(s)))
SliceSuffix(s, k) ==
    IF k > 0 THEN SubSeq(s, Len(s) - Min(k, Len(s)) + 1, Len(s)) ELSE <<>>

\* results[:k] of Python: a negative k counts from the end.
SlicePrefix(s, k) ==
    IF k >= 0 THEN SubSeq(s, 1, Min(k, Len(s)))
    ELSE SubSeq(s, 1, Max(Len(s) + k, 0))

Scores(embeddings, q) ==
    [i \in 1..Len(embeddings) |->
        [filename |-> embeddings[i].filename,
         score |-> Dot(q, embeddings[i].embedding.v)]]

\* Mutant: the None check on the query embedding is missing, so
\* None.to(torch.float32) raises.
SearchEmbeddingsNoNoneCheck(embeddings, text_emb, k) ==
    IF ~text_emb.some THEN [err |-> "AttributeError", results |-> <<>>]
    ELSE IF \E i \in 1..Len(embeddings) :
                ~CanMatmul(text_emb.v, embeddings[i].embedding)
         THEN [err |-> "RuntimeError", results |-> <<>>]
         ELSE [err |-> "none",
               results |-> SlicePrefix(SortDesc(Scores(embeddings, text_emb.v)), k)]

\* text_emb is the answer of get_text_embedding: None or a vector.
SearchEmbeddings(embeddings, text_emb, k) ==
    IF ~text_emb.some THEN [err |-> "none", results |-> <<>>]
    ELSE IF \E i \in 1..Len(embeddings) :
                ~CanMatmul(text_emb.v, embeddings[i].embedding)
         THEN [err |-> "RuntimeError", results |-> <<>>]
         ELSE [err |-> "none",
               results |-> SlicePrefix(SortDesc(Scores(embeddings, text_emb.v)), k)]

\* ------------------------------------------------------------------ state
VARIABLES
    dir,    \* static/portfolio_pages: file name -> image (or absent)
    file,   \* static/clip_embeddings.json
    tmp,    \* static/clip_embeddings.tmp
    req,    \* the GET /search request being served
    reb,    \* the embed_images call of POST /embed-portfolio
    sav,    \* the save_embeddings call
    up,     \* the POST /embed-portfolio request being served
    EMBEDDINGS, \* style_utils.EMBEDDINGS["embeddings"]
    rs,     \* the GET /recommend-style request being served
    cfg,    \* module-level flags of backend/main.py
    outputs, \* the outputs directory of backend/main.py
    dp      \* the GET /design/plan request being served

\* The variables of the handlers outside the store and its search.
side == <<up, EMBEDDINGS, rs, cfg, outputs, dp>>
vars == <<dir, file, tmp, req, reb, sav, side>>

\* An entry of the pages directory: no such file, a file the encoder fails
\* on (unreadable, not an image), or an image with its CLIP embedding.
Absent == [present |-> FALSE, emb |-> None]
Corrupt == [present |-> TRUE, emb |-> None]
Img(v) == [present |-> TRUE, emb |-> Some(v)]
Images == { Absent, Corrupt } \cup { Img(v) : v \in Vecs }

\* searched: search_embeddings has been called by this request.
ReqIdle == [pc |-> "idle", embeddings |-> <<>>, searched |-> FALSE,
            text_emb |-> None, k |-> 0, results |-> <<>>, error |-> "none"]
RebIdle == [pc |-> "idle", listing |-> <<>>, i |-> 0, results |-> <<>>,
            processed |-> 0, skipped |-> <<>>, written |-> 0]
SavIdle == [pc |-> "idle", embeddings |-> <<>>, written |-> 0]
\* opened: convert_from_path read the PDF; pages: the tuple extract_images
\* returned; status, processed, skipped: the answer of the handler.
UpIdle == [pc |-> "idle", opened |-> FALSE, pages |-> <<0, 0>>,
           status |-> 0, processed |-> 0, skipped |-> <<>>]
RsIdle == [pc |-> "idle", reference |-> 0, top_k |-> 0, status |-> 0,
           recommended_styles |-> <<>>, error |-> "none"]
NoFlags == [ENHANCED_FEATURES |-> FALSE, geocode_address |-> "None",
            API_CONFIGURED |-> FALSE, CORE_FEATURES_AVAILABLE |-> FALSE]
DpIdle == [pc |-> "idle", address |-> <<>>, area_sqm |-> 0, status |-> 0,
           geocoded |-> FALSE, parcel_bbox |-> <<>>, fallback_used |-> FALSE,
           detail |-> "", stem |-> <<>>, written |-> {}]

\* The handlers a specification leaves out are at rest.
SideIdle ==
    /\ up = UpIdle
    /\ EMBEDDINGS = <<>>
    /\ rs = RsIdle
    /\ cfg = NoFlags
    /\ outputs = {}
    /\ dp = DpIdle

\* ------------------------------------------------- GET /search (main.py)
\* Mutant: the missing file is reported with the format error.
LoadExistsWrongError ==
    /\ req.pc = "idle"
    /\ req' = IF file.exists
              THEN [ReqIdle EXCEPT !.pc = "read"]
              ELSE [ReqIdle EXCEPT !.pc = "done", !.error = "ValueError"]
    /\ UNCHANGED <<dir, file, tmp, reb, sav, side>>

\* p.exists() of load_embeddings.
LoadExists ==
    /\ req.pc = "idle"
    /\ req' = IF file.exists
              THEN [ReqIdle EXCEPT !.pc = "read"]
              ELSE [ReqIdle EXCEPT !.pc = "done", !.error = "FileNotFoundError"]
    /\ UNCHANGED <<dir, file, tmp, reb, sav, side>>

\* p.read_text(), json.loads and the normalisation into a dict of tensors.
LoadRead ==
    /\ req.pc = "read"
    /\ LET r == LoadContent(file)
       IN req' = IF r.err = "none"
                 THEN [req EXCEPT !.pc = "search", !.embeddings = r.out]
                 ELSE [req EXCEPT !.pc = "done", !.error = r.err]
    /\ UNCHANGED <<dir, file, tmp, reb, sav, side>>

\* search_embeddings(embeddings, query, k): the encoder answers the query
\* with a vector or fails (get_text_embedding returns None).
Search ==
    /\ req.pc = "search"
    /\ \E k \in KRange, q \in {None} \cup { Some(v) : v \in Vecs } :
         LET r == SearchEmbeddings(req.embeddings, q, k)
         IN req' = [req EXCEPT !.pc = "done", !.searched = TRUE,
                               !.k = k, !.text_emb = q,
                               !.results = r.results, !.error = r.err]
    /\ UNCHANGED <<dir, file, tmp, reb, sav, side>>

\* The response (or the fault) leaves the handler.
Respond ==
    /\ req.pc = "done"
    /\ req' = ReqIdle
    /\ UNCHANGED <<dir, file, tmp, reb, sav, side>>

\* ------------------------------------- the encoder call of a search
\* search_embeddings enters get_text_embedding: MODEL.encode_text is
\* running.
EncodeCall ==
    /\ req.pc = "search"
    /\ req' = [req EXCEPT !.pc = "encoding"]
    /\ UNCHANGED <<dir, file, tmp, reb, sav, side>>

\* The encoder answers (a vector, or an exception that get_text_embedding
\* turns into None) and search_embeddings runs to its return.  The code
\* sets no limit on the wait for this answer.
EncoderAnswer ==
    /\ req.pc = "encoding"
    /\ \E k \in KRange, q \in {None} \cup { Some(v) : v \in Vecs } :
         LET r == SearchEmbeddings(req.embeddings, q, k)
         IN req' = [req EXCEPT !.pc = "done", !.searched = TRUE,
                               !.k = k, !.text_emb = q,
                               !.results = r.results, !.error = r.err]
    /\ UNCHANGED <<dir, file, tmp, reb, sav, side>>

\* ------------------------------------------------- store files on disk
\* The body of a JSON object: keys ks (distinct, in any order) with values vs.
DictBody(ks, vs) == [i \in 1..Len(ks) |-> Pair(ks[i], vs[i])]
Distinct(ks) == \A i, j \in 1..Len(ks) : i < j => ks[i] # ks[j]

\* Elements of a JSON array: records (identifiers may repeat) and elements
\* that are not records with both fields.
ListElems ==
    { Pair(fn, val) : fn \in Ids, val \in JVals }
      \cup { NoFilename(JVec(<<10, 0>>)), NumElem }
      \cup { NoEmbedding(fn) : fn \in Ids }

\* ------------------------------------------ searches over a store on disk
\* The store file is missing, empty, a JSON scalar, a JSON object or a
\* JSON array.
InitSearch ==
    /\ dir = [fn \in Ids |-> Absent]
    /\ \/ file \in { NoFile, File("scalar", <<>>, TRUE), File("dict", <<>>, FALSE) }
       \/ \E n \in 0..NumIds : \E ks \in [1..n -> Ids] :
            /\ Distinct(ks)
            /\ \E vs \in [1..n -> JVals] : file = File("dict", DictBody(ks, vs), TRUE)
       \/ \E n \in 0..MaxListLen : \E b \in [1..n -> ListElems] :
            file = File("list", b, TRUE)
    /\ tmp = NoFile
    /\ req = ReqIdle
    /\ reb = RebIdle
    /\ sav = SavIdle
    /\ SideIdle

NextSearch == LoadExists \/ LoadRead \/ Search \/ Respond

SpecSearch == InitSearch /\ [][NextSearch]_vars

\* ----------------------- searches whose encoder may never answer
NextEncoder == LoadExists \/ LoadRead \/ EncodeCall \/ EncoderAnswer \/ Respond

\* Every step of the handler itself is taken once it can be; the encoder
\* is an external call and owes no answer.
SpecEncoder ==
    /\ InitSearch
    /\ [][NextEncoder]_vars
    /\ WF_vars(LoadExists) /\ WF_vars(LoadRead)
    /\ WF_vars(EncodeCall) /\ WF_vars(Respond)

\* ------------------------------------------- embed_images (clip_utils.py)
\* sorted(os.listdir(image_dir))
RECURSIVE SortedSeq(_)
SortedSeq(S) ==
    IF S = {} THEN <<>>
    ELSE LET m == CHOOSE x \in S : \A y \in S : x <= y
         IN <<m>> \o SortedSeq(S \ {m})
\* Mutant: only the pages of the PDF just uploaded are listed.
ListDirOfThisUpload(d) ==
    SortedSeq({ fn \in DOMAIN d : d[fn].present /\ fn <= up.pages[1] + up.pages[2] })
ListDir(d) == SortedSeq({ fn \in DOMAIN d : d[fn].present })

\* get_image_embedding(path): None when the file is missing or the encoder
\* raises, the embedding otherwise.
GetImageEmbedding(d, fn) == IF d[fn].present THEN d[fn].emb ELSE None

\* os.makedirs, the three accumulators and the directory listing.
EmbedStart ==
    /\ reb.pc = "idle"
    /\ reb' = [RebIdle EXCEPT !.pc = "loop", !.listing = ListDir(dir), !.i = 1]
    /\ UNCHANGED <<dir, file, tmp, req, sav, side>>

\* Mutant: a failing item ends the loop (the batch is aborted).
EmbedOneAbortOnFailure ==
    /\ reb.pc = "loop"
    /\ reb.i <= Len(reb.listing)
    /\ LET fn == reb.listing[reb.i]
           emb == GetImageEmbedding(dir, fn)
       IN reb' = IF ~emb.some
                 THEN [reb EXCEPT !.i = Len(reb.listing) + 1,
                                  !.skipped = Append(@, fn)]
                 ELSE [reb EXCEPT !.i = @ + 1,
                                  !.results = DictSet(@, fn, emb.v),
                                  !.processed = @ + 1]
    /\ UNCHANGED <<dir, file, tmp, req, sav, side>>

\* One iteration of the loop over the listing.
EmbedOne ==
    /\ reb.pc = "loop"
    /\ reb.i <= Len(reb.listing)
    /\ LET fn == reb.listing[reb.i]
           emb == GetImageEmbedding(dir, fn)
       IN reb' = IF ~emb.some
                 THEN [reb EXCEPT !.i = @ + 1, !.skipped = Append(@, fn)]
                 ELSE [reb EXCEPT !.i = @ + 1,
                                  !.results = DictSet(@, fn, emb.v),
                                  !.processed = @ + 1]
    /\ UNCHANGED <<dir, file, tmp, req, sav, side>>

\* open(embeddings_file, "w"): the file is created or truncated in place.
EmbedOpen ==
    /\ reb.pc = "loop"
    /\ reb.i > Len(reb.listing)
    /\ file' = File("dict", <<>>, FALSE)
    /\ reb' = [reb EXCEPT !.pc = "dump"]
    /\ UNCHANGED <<dir, tmp, req, sav, side>>

\* json.dump(results, f): the text reaches the file entry by entry.
EmbedDump ==
    /\ reb.pc = "dump"
    /\ reb.written < Len(reb.results)
    /\ LET e == reb.results[reb.written + 1]
       IN file' = [file EXCEPT !.body = Append(@, Pair(e.filename, JVec(e.embedding)))]
    /\ reb' = [reb EXCEPT !.written = @ + 1]
    /\ UNCHANGED <<dir, tmp, req, sav, side>>

\* Leaving the with block: the rest of the text is flushed, the file closed.
EmbedClose ==
    /\ reb.pc = "dump"
    /\ reb.written = Len(reb.results)
    /\ file' = [file EXCEPT !.closed = TRUE]
    /\ reb' = [reb EXCEPT !.pc = "done"]
    /\ UNCHANGED <<dir, tmp, req, sav, side>>

\* return processed, skipped
EmbedReturn ==
    /\ reb.pc = "done"
    /\ reb' = RebIdle
    /\ UNCHANGED <<dir, file, tmp, req, sav, side>>

\* Store files left by an earlier run, in either format or in none.
PriorFiles ==
    { NoFile,
      File("scalar", <<>>, TRUE),
      File("list", << Pair(NumIds, JVec(<<7, 7>>)) >>, TRUE),
      File("dict", [i \in 1..NumIds |-> Pair(i, JVec(<<0, 10>>))], TRUE) }

\* A bulk embedding over any directory and any earlier store file.
InitEmbed ==
    /\ dir \in [Ids -> Images]
    /\ file \in PriorFiles
    /\ tmp = NoFile
    /\ req = ReqIdle
    /\ reb = RebIdle
    /\ sav = SavIdle
    /\ SideIdle

NextEmbed ==
    EmbedStart \/ EmbedOne \/ EmbedOpen \/ EmbedDump \/ EmbedClose \/ EmbedReturn

SpecEmbed == InitEmbed /\ [][NextEmbed]_vars

\* ------------------------------------------------ the service (main.py)
\* Searches are served by worker threads while the event loop runs one
\* embed_images at a time.
Init ==
    /\ dir \in [Ids -> { Absent, Corrupt, Img(<<10, 0>>), Img(<<0, 10>>) }]
    /\ file = NoFile
    /\ tmp = NoFile
    /\ req = ReqIdle
    /\ reb = RebIdle
    /\ sav = SavIdle
    /\ SideIdle

Next ==
    \/ LoadExists \/ LoadRead \/ Search \/ Respond
    \/ EmbedStart \/ EmbedOne \/ EmbedOpen \/ EmbedDump \/ EmbedClose \/ EmbedReturn

Spec == Init /\ [][Next]_vars

\* ------------------------------------ POST /embed-portfolio (main.py)
\* Embeddings of the page images an uploaded PDF can render to.
PageVecs == { <<10, 0>>, <<0, 10>> }
\* img.save(out_file) of one page: the JPEG is written (an image, or one
\* the encoder will fail on), or the save raises and leaves the path as it
\* was or with an unreadable file.
PageOutcomes ==
    { [saved |-> TRUE, wrote |-> TRUE, img |-> Img(v)] : v \in PageVecs }
      \cup { [saved |-> TRUE, wrote |-> TRUE, img |-> Corrupt],
             [saved |-> FALSE, wrote |-> TRUE, img |-> Corrupt],
             [saved |-> FALSE, wrote |-> FALSE, img |-> Absent] }

\* The upload is stored and extract_images(pdf_path, image_dir) runs:
\* convert_from_path fails and (0, 0) is returned, or page_1 .. page_n are
\* saved one by one and (processed, skipped) is returned.
UploadExtract ==
    /\ up.pc = "idle"
    /\ reb.pc = "idle"
    /\ \/ /\ up' = [UpIdle EXCEPT !.pc = "check", !.pages = <<0, 0>>]
          /\ dir' = dir
       \/ \E n \in 0..NumIds : \E w \in [1..n -> PageOutcomes] :
            /\ dir' = [fn \in Ids |-> IF fn <= n /\ w[fn].wrote THEN w[fn].img
                                      ELSE dir[fn]]
            /\ up' = [UpIdle EXCEPT
                        !.pc = "check", !.opened = TRUE,
                        !.pages = << Cardinality({ i \in 1..n : w[i].saved }),
                                     Cardinality({ i \in 1..n : ~w[i].saved }) >>]
    /\ UNCHANGED <<file, tmp, req, reb, sav, EMBEDDINGS, rs, cfg, outputs, dp>>

\* bool(pages) of Python: a tuple is false only when it is empty.
Truthy(pages) == Len(pages) > 0

\* if not pages: raise HTTPException(500, "Failed to extract any pages")
UploadCheck ==
    /\ up.pc = "check"
    /\ up' = IF ~Truthy(up.pages)
             THEN [up EXCEPT !.pc = "done", !.status = 500]
             ELSE [up EXCEPT !.pc = "embed"]
    /\ UNCHANGED <<dir, file, tmp, req, reb, sav, EMBEDDINGS, rs, cfg, outputs, dp>>

\* The handler calls embed_images(image_dir, embeddings_file).
UploadEmbedStart == up.pc = "embed" /\ EmbedStart

\* embed_images returns and the handler answers with the JSONResponse.
UploadRespond ==
    /\ up.pc = "embed"
    /\ reb.pc = "done"
    /\ up' = [up EXCEPT !.pc = "done", !.status = 200,
                        !.processed = reb.processed, !.skipped = reb.skipped]
    /\ reb' = RebIdle
    /\ UNCHANGED <<dir, file, tmp, req, sav, EMBEDDINGS, rs, cfg, outputs, dp>>

\* The answer leaves the handler.
UploadDone ==
    /\ up.pc = "done"
    /\ up' = UpIdle
    /\ UNCHANGED <<dir, file, tmp, req, reb, sav, EMBEDDINGS, rs, cfg, outputs, dp>>

InitUpload ==
    /\ dir = [fn \in Ids |-> Absent]
    /\ file = NoFile
    /\ tmp = NoFile
    /\ req = ReqIdle
    /\ reb = RebIdle
    /\ sav = SavIdle
    /\ SideIdle

NextUpload ==
    \/ UploadExtract \/ UploadCheck \/ UploadEmbedStart
    \/ EmbedOne \/ EmbedOpen \/ EmbedDump \/ EmbedClose
    \/ UploadRespond \/ UploadDone

SpecUpload == InitUpload /\ [][NextUpload]_vars

\* ------------------------------------ GET /design/plan (backend/main.py)
\* The values the module-level names can have once backend/main.py is
\* imported: when the enhanced imports succeed the name geocode_address is
\* never bound; otherwise it is the basic geocoder or None.
FlagSets ==
    { c \in [ENHANCED_FEATURES : BOOLEAN,
             geocode_address : {"unbound", "function", "None"},
             API_CONFIGURED : BOOLEAN,
             CORE_FEATURES_AVAILABLE : BOOLEAN] :
        c.ENHANCED_FEATURES <=> (c.geocode_address = "unbound") }

\* Addresses are strings, modelled as sequences of characters and words.
Addresses ==
    { <<>>, <<" ">>, <<"1", " ", "Main">>, <<"1", ",", " ", "Main">>,
      <<"1", "/", "Main">> }
\* area_sqm, in square metres.
Areas == { 49, 50, 10000, 10001 }

\* address.strip() is empty.
Blank(address) == \A i \in 1..Len(address) : address[i] = " "

\* What the input validation raises: status 0 when it raises nothing.
\* Mutant: the area is validated before the address.
ValidateAreaFirst(address, area_sqm) ==
    IF area_sqm < 50 \/ area_sqm > 10000
    THEN [status |-> 400, detail |-> "Building area must be between 50 and 10,000 sqm"]
    ELSE IF Blank(address)
    THEN [status |-> 400, detail |-> "Address cannot be empty"]
    ELSE IF ~cfg.CORE_FEATURES_AVAILABLE
    THEN [status |-> 500, detail |-> "Core generation features not available"]
    ELSE [status |-> 0, detail |-> ""]
Validate(address, area_sqm) ==
    IF Blank(address)
    THEN [status |-> 400, detail |-> "Address cannot be empty"]
    ELSE IF area_sqm < 50 \/ area_sqm > 10000
    THEN [status |-> 400, detail |-> "Building area must be between 50 and 10,000 sqm"]
    ELSE IF ~cfg.CORE_FEATURES_AVAILABLE
    THEN [status |-> 500, detail |-> "Core generation features not available"]
    ELSE [status |-> 0, detail |-> ""]

\* A request arrives and is validated, before the try block.
DesignRequest ==
    /\ dp.pc = "idle"
    /\ \E address \in Addresses, area_sqm \in Areas :
         LET v == Validate(address, area_sqm) IN
           dp' = IF v.status # 0
                 THEN [DpIdle EXCEPT !.pc = "done", !.address = address,
                                     !.area_sqm = area_sqm,
                                     !.status = v.status, !.detail = v.detail]
                 ELSE [DpIdle EXCEPT !.pc = "geocode", !.address = address,
                                     !.area_sqm = area_sqm]
    /\ UNCHANGED <<dir, file, tmp, req, reb, sav, up, EMBEDDINGS, rs, cfg, outputs>>

\* Bounding boxes in units of 0.0001 degree: [xmin, ymin, xmax, ymax].
FallbackBbox == << -1276, 515074, -1176, 515174 >>
\* The box geocode_address builds around a location (delta = 0.0005).
BboxAround(loc) == << loc[1] - 5, loc[2] - 5, loc[1] + 5, loc[2] + 5 >>
\* Locations <<lng, lat>> the geocoding service can answer with.
Locations == { << -1276, 515074 >>, << 23522, 488566 >> }

\* except Exception as e: raise HTTPException(500, "Design generation failed: ...")
DesignFailed(d) == [d EXCEPT !.pc = "done", !.status = 500,
                             !.detail = "Design generation failed"]

\* f"{area_sqm}" of a float.
AreaText == (49 :> "49.0") @@ (50 :> "50.0") @@ (10000 :> "10000.0")
              @@ (10001 :> "10001.0")

\* Words of the prompt handed to generate_plan_png.
BasicPrompt(address, area_sqm) ==
    <<"clinic", " ", "layout", " ", "at", " ">> \o address
      \o <<" ", "-", " ", AreaText[area_sqm], " ", "sqm">>
EnhancedPrompt(address, area_sqm) ==
    <<"\n", "clinic", " ", "design", " ", "for", " ">> \o address
      \o <<"\n", "Area:", " ", AreaText[area_sqm], " ", "sqm", "\n", "Style", " ",
           "preference:", " ", "local", "\n">>

\* prompt.replace(" ", "_").replace(",", "")
RECURSIVE Stem(_)
Stem(prompt) ==
    IF prompt = <<>> THEN <<>>
    ELSE IF Head(prompt) = "," THEN Stem(Tail(prompt))
    ELSE << IF Head(prompt) = " " THEN "_" ELSE Head(prompt) >> \o Stem(Tail(prompt))

\* Lines 256-287: enhanced geocoding, basic geocoding or the fallback box.
DesignGeocode ==
    /\ dp.pc = "geocode"
    /\ IF cfg.ENHANCED_FEATURES /\ cfg.API_CONFIGURED
       THEN \* await get_location_intelligence(address): a box, or it raises
            \/ \E loc \in Locations :
                 dp' = [dp EXCEPT !.pc = "generate", !.geocoded = TRUE,
                                  !.parcel_bbox = BboxAround(loc),
                                  !.stem = Stem(EnhancedPrompt(dp.address, dp.area_sqm))]
            \/ dp' = DesignFailed([dp EXCEPT !.geocoded = TRUE])
       ELSE IF cfg.geocode_address = "unbound"
       THEN \* NameError: name 'geocode_address' is not defined
            dp' = DesignFailed(dp)
       ELSE IF cfg.geocode_address = "function" /\ cfg.API_CONFIGURED
       THEN \* geocode_address(address): a box, or ValueError
            \/ \E loc \in Locations :
                 dp' = [dp EXCEPT !.pc = "generate", !.geocoded = TRUE,
                                  !.parcel_bbox = BboxAround(loc),
                                  !.fallback_used = ~cfg.API_CONFIGURED,
                                  !.stem = Stem(BasicPrompt(dp.address, dp.area_sqm))]
            \/ dp' = DesignFailed([dp EXCEPT !.geocoded = TRUE])
       ELSE dp' = [dp EXCEPT !.pc = "generate",
                             !.parcel_bbox = FallbackBbox,
                             !.fallback_used = ~cfg.API_CONFIGURED,
                             !.stem = Stem(BasicPrompt(dp.address, dp.area_sqm))]
    /\ UNCHANGED <<dir, file, tmp, req, reb, sav, up, EMBEDDINGS, rs, cfg, outputs>>

\* Files of the outputs directory: a name and what the file holds.
Exists(fs, name) == \E f \in fs : f.name = name
Content(fs, name) == (CHOOSE f \in fs : f.name = name).content
WriteFile(fs, name, content) ==
    { f \in fs : f.name # name } \cup { [name |-> name, content |-> content] }

\* Mutant: the DXF and the IFC are written on every request.
GenerateFilesAlways(fs, stem, bbox) ==
    LET png == stem \o <<".png">>
        styled == stem \o <<"_styled", ".png">>
        dxf_path == stem \o <<"_styled", ".dxf">>
        ifc_path == stem \o <<"_styled", ".ifc">>
        f1 == WriteFile(fs, png, <<"plan", <<>> >>)
        f2 == WriteFile(f1, styled, <<"styled plan", <<>> >>)
        f3 == WriteFile(f2, dxf_path, <<"dxf", bbox>>)
        f4 == WriteFile(f3, ifc_path, Content(f3, dxf_path))
    IN  [files |-> f4, written |-> {png, styled, dxf_path, ifc_path}]
\* generate_plan_png, style_png, then the DXF and the IFC unless a file of
\* that name exists. The plan is a fixed drawing; the DXF holds the box.
GenerateFiles(fs, stem, bbox) ==
    LET png == stem \o <<".png">>
        styled == stem \o <<"_styled", ".png">>
        dxf_path == stem \o <<"_styled", ".dxf">>
        ifc_path == stem \o <<"_styled", ".ifc">>
        f1 == WriteFile(fs, png, <<"plan", <<>> >>)
        f2 == WriteFile(f1, styled, <<"styled plan", <<>> >>)
        f3 == IF Exists(f2, dxf_path) THEN f2
              ELSE WriteFile(f2, dxf_path, <<"dxf", bbox>>)
        f4 == IF Exists(f3, ifc_path) THEN f3
              ELSE WriteFile(f3, ifc_path, Content(f3, dxf_path))
    IN  [files |-> f4,
         written |-> {png, styled}
                       \cup (IF Exists(f2, dxf_path) THEN {} ELSE {dxf_path})
                       \cup (IF Exists(f3, ifc_path) THEN {} ELSE {ifc_path})]

\* img.save(out) fails when the stem names a directory that does not exist.
Saveable(stem) == \A i \in 1..Len(stem) : stem[i] # "/"

\* Lines 289-332: the files are generated and the result is returned.
DesignGenerate ==
    /\ dp.pc = "generate"
    /\ IF ~Saveable(dp.stem)
       THEN /\ dp' = DesignFailed(dp)
            /\ outputs' = outputs
       ELSE LET g == GenerateFiles(outputs, dp.stem, dp.parcel_bbox) IN
            /\ outputs' = g.files
            /\ dp' = [dp EXCEPT !.pc = "done", !.status = 200,
                                !.written = g.written]
    /\ UNCHANGED <<dir, file, tmp, req, reb, sav, up, EMBEDDINGS, rs, cfg>>

\* The answer leaves the handler.
DesignRespond ==
    /\ dp.pc = "done"
    /\ dp' = DpIdle
    /\ UNCHANGED <<dir, file, tmp, req, reb, sav, up, EMBEDDINGS, rs, cfg, outputs>>

InitDesign ==
    /\ dir = [fn \in Ids |-> Absent]
    /\ file = NoFile
    /\ tmp = NoFile
    /\ req = ReqIdle
    /\ reb = RebIdle
    /\ sav = SavIdle
    /\ up = UpIdle
    /\ EMBEDDINGS = <<>>
    /\ rs = RsIdle
    /\ cfg \in FlagSets
    /\ outputs = {}
    /\ dp = DpIdle

NextDesign == DesignRequest \/ DesignGeocode \/ DesignGenerate \/ DesignRespond

SpecDesign == InitDesign /\ [][NextDesign]_vars

\* ------------------------------------ GET /recommend-style (style_utils.py)
\* Embeddings of the style store: non-zero vectors of one length.
StyleVecs == { <<3, 4>>, <<6, 8>>, <<0, 5>> }

\* np.linalg.norm(v), exact on StyleVecs.
Norm(v) == CHOOSE r \in 0..Dot(v, v) : r * r <= Dot(v, v) /\ Dot(v, v) < (r + 1) * (r + 1)

\* cosine_similarity, in thousandths.
Cosine(vec1, vec2) == (Dot(vec1, vec2) * 1000) \div (Norm(vec1) * Norm(vec2))

\* EMBEDDINGS["embeddings"][reference_image]
Lookup(store, fn) == (CHOOSE e \in { store[i] : i \in 1..Len(store) } : e.filename = fn).embedding

\* Mutant: the reference image is scored like every other image.
SimilaritiesWithReference(store, reference_image) ==
    [i \in 1..Len(store) |->
        [filename |-> store[i].filename,
         score |-> Cosine(Lookup(store, reference_image), store[i].embedding)]]
\* The loop of lines 20-24: every image but the reference, in store order.
Similarities(store, reference_image) ==
    LET Other(e) == e.filename # reference_image
        others == SelectSeq(store, Other)
    IN  [i \in 1..Len(others) |->
            [filename |-> others[i].filename,
             score |-> Cosine(Lookup(store, reference_image), others[i].embedding)]]

\* GET /recommend-style?reference_image=..&top_k=..
RecommendStyle ==
    /\ rs.pc = "idle"
    /\ \E reference_image \in Ids, top_k \in KRange :
         rs' = IF ~HasKey(EMBEDDINGS, reference_image)
               THEN [RsIdle EXCEPT !.pc = "done", !.reference = reference_image,
                                   !.top_k = top_k, !.status = 500,
                                   !.error = "KeyError"]
               ELSE [RsIdle EXCEPT
                       !.pc = "done", !.reference = reference_image,
                       !.top_k = top_k, !.status = 200,
                       !.recommended_styles =
                          SlicePrefix(SortDesc(Similarities(EMBEDDINGS, reference_image)),
                                      top_k)]
    /\ UNCHANGED <<dir, file, tmp, req, reb, sav, up, EMBEDDINGS, cfg, outputs, dp>>

\* The answer leaves the handler.
StyleRespond ==
    /\ rs.pc = "done"
    /\ rs' = RsIdle
    /\ UNCHANGED <<dir, file, tmp, req, reb, sav, up, EMBEDDINGS, cfg, outputs, dp>>

\* EMBEDDINGS is loaded once, at import: a mapping of distinct names.
InitStyle ==
    /\ dir = [fn \in Ids |-> Absent]
    /\ file = NoFile
    /\ tmp = NoFile
    /\ req = ReqIdle
    /\ reb = RebIdle
    /\ sav = SavIdle
    /\ up = UpIdle
    /\ \E n \in 0..NumIds : \E ks \in [1..n -> Ids] : \E vs \in [1..n -> StyleVecs] :
         /\ Distinct(ks)
         /\ EMBEDDINGS = [i \in 1..n |-> [filename |-> ks[i], embedding |-> vs[i]]]
    /\ rs = RsIdle
    /\ cfg = NoFlags
    /\ outputs = {}
    /\ dp = DpIdle

NextStyle == RecommendStyle \/ StyleRespond

SpecStyle == InitStyle /\ [][NextStyle]_vars

\* ---------------------------------------- save_embeddings (clip_utlis.py)
\* Stores handed to save_embeddings: file name -> list of floats.
SaveVecs == { <<10, 0>>, <<0, 10>> }
SaveStores ==
    UNION { { [i \in 1..n |-> [filename |-> i, embedding |-> vs[i]]] :
                vs \in [1..n -> SaveVecs] } : n \in 0..MaxSaveLen }

\* The call, the mkdir of the parent and the temporary path.
SaveStart ==
    /\ sav.pc = "idle"
    /\ \E e \in SaveStores : sav' = [SavIdle EXCEPT !.pc = "open", !.embeddings = e]
    /\ UNCHANGED <<dir, file, tmp, req, reb, side>>

\* open(tmp_path, "w")
SaveOpen ==
    /\ sav.pc = "open"
    /\ tmp' = File("dict", <<>>, FALSE)
    /\ sav' = [sav EXCEPT !.pc = "dump"]
    /\ UNCHANGED <<dir, file, req, reb, side>>

\* json.dump(embeddings, f): the text reaches the temporary file entry by
\* entry.
SaveDump ==
    /\ sav.pc = "dump"
    /\ sav.written < Len(sav.embeddings)
    /\ LET e == sav.embeddings[sav.written + 1]
       IN tmp' = [tmp EXCEPT !.body = Append(@, Pair(e.filename, JVec(e.embedding)))]
    /\ sav' = [sav EXCEPT !.written = @ + 1]
    /\ UNCHANGED <<dir, file, req, reb, side>>

\* Leaving the with block closes the temporary file.
SaveClose ==
    /\ sav.pc = "dump"
    /\ sav.written = Len(sav.embeddings)
    /\ tmp' = [tmp EXCEPT !.closed = TRUE]
    /\ sav' = [sav EXCEPT !.pc = "replace"]
    /\ UNCHANGED <<dir, file, req, reb, side>>

\* Mutant: the rename is issued inside the with block, before the text is
\* complete.
SaveReplaceBeforeClose ==
    /\ sav.pc \in {"dump", "replace"}
    /\ file' = tmp
    /\ tmp' = NoFile
    /\ sav' = SavIdle
    /\ UNCHANGED <<dir, req, reb, side>>

\* tmp_path.replace(EMBEDDINGS_PATH): one rename, then the return.
SaveReplace ==
    /\ sav.pc = "replace"
    /\ file' = tmp
    /\ tmp' = NoFile
    /\ sav' = SavIdle
    /\ UNCHANGED <<dir, req, reb, side>>

InitSave ==
    /\ dir = [fn \in Ids |-> Absent]
    /\ file = NoFile
    /\ tmp = NoFile
    /\ req = ReqIdle
    /\ reb = RebIdle
    /\ sav = SavIdle
    /\ SideIdle

NextSave ==
    \/ SaveStart \/ SaveOpen \/ SaveDump \/ SaveClose \/ SaveReplace
    \/ LoadExists \/ LoadRead \/ Search \/ Respond

SpecSave == InitSave /\ [][NextSave]_vars

\* ============================================ claims on rebuild and save
\* C1: a search that reads the store file while a rebuild runs observes a
\* complete mapping (the previous or the new one), never an empty,
\* truncated or half-written file.
C1_SearchNeverSeesPartialStore ==
    req.pc \in {"search", "done"} => req.error # "JSONDecodeError"

\* C2: at every step of a save the destination holds the complete old
\* content or the complete new content, and no reader observes a partially
\* written file.
C2_SaveIsAtomic ==
    [][ /\ (file' = file \/ file' = JsonDump(sav.embeddings))
        /\ (file'.exists => file'.closed)
        /\ req'.error # "JSONDecodeError" ]_vars
C2_Witness ==
    /\ sav.pc = "dump" /\ tmp.exists /\ ~tmp.closed /\ Len(tmp.body) >= 1
    /\ file.exists /\ file.closed /\ file # JsonDump(sav.embeddings)
    /\ req.pc = "search" /\ Len(req.embeddings) = Len(file.body)
    /\ Len(req.embeddings) >= 1

\* C3: bulk embedding processes every item whatever fails, returns the
\* number of successes and the failed identifiers in processing order, and
\* leaves a store holding exactly the successfully embedded identifiers.
Embedded(d) == { fn \in DOMAIN d : d[fn].present /\ d[fn].emb.some }
Failed(d) == { fn \in DOMAIN d : d[fn].present /\ ~d[fn].emb.some }
C3_BulkEmbedNeverAborts ==
    reb.pc = "done" =>
      LET ok == SortedSeq(Embedded(dir))
      IN /\ reb.i = Len(reb.listing) + 1
         /\ reb.processed = Cardinality(Embedded(dir))
         /\ reb.skipped = SortedSeq(Failed(dir))
         /\ file = File("dict",
                        [j \in 1..Len(ok) |-> Pair(ok[j], JVec(dir[ok[j]].emb.v))],
                        TRUE)
\* three items, the second fails: (2, <<2>>) and a store of items 1 and 3.
C3_Witness ==
    /\ reb.pc = "done"
    /\ reb.listing = <<1, 2, 3>>
    /\ dir[1].emb.some /\ ~dir[2].emb.some /\ dir[3].emb.some
    /\ reb.processed = 2 /\ reb.skipped = <<2>>
    /\ file.closed /\ { file.body[j].filename : j \in 1..Len(file.body) } = {1, 3}

\* ===================================================== claims on search
\* A search that returned a ranking: the store was loaded, the query was
\* embedded and search_embeddings raised nothing.
Ranked == req.pc = "done" /\ req.searched /\ req.error = "none" /\ req.text_emb.some
ResultNames == { req.results[j].filename : j \in 1..Len(req.results) }
PosIn(d, fn) == CHOOSE i \in 1..Len(d) : d[i].filename = fn

\* C4: for every store, every embedded query and every k >= 0, search
\* returns exactly min(k, |store|) results.
C4_LengthIsMinKStore ==
    (Ranked /\ req.k >= 0) => Len(req.results) = Min(req.k, Len(req.embeddings))
C4_Witness ==
    /\ Ranked /\ req.k > Len(req.embeddings) /\ Len(req.embeddings) >= 2
    /\ Len(req.results) = Len(req.embeddings)

\* C5: for every store and every k <= 0 (zero and every negative integer),
\* search returns an empty sequence.
C5_NonPositiveKEmpty ==
    (req.pc = "done" /\ req.searched /\ req.error = "none" /\ req.k <= 0)
        => req.results = <<>>

\* C6: top-K: every stored entry that is not in the result scores no more
\* than every entry that is in the result.
C6_TopK ==
    Ranked =>
      \A i \in 1..Len(req.embeddings) :
        req.embeddings[i].filename \notin ResultNames =>
          \A j \in 1..Len(req.results) :
            Dot(req.text_emb.v, req.embeddings[i].embedding.v) <= req.results[j].score
\* store 1=[1,0], 2=[0,1], 3=[0.7,0.7], query [1,0], k=2: 1 then 3, 2 left out.
C6_Witness ==
    /\ Ranked /\ req.k = 2 /\ req.text_emb.v = <<10, 0>>
    /\ Len(req.embeddings) = 3
    /\ \A i \in 1..3 : req.embeddings[i].filename = i
    /\ req.embeddings[1].embedding.v = <<10, 0>>
    /\ req.embeddings[2].embedding.v = <<0, 10>>
    /\ req.embeddings[3].embedding.v = <<7, 7>>
    /\ req.results = << [filename |-> 1, score |-> 100], [filename |-> 3, score |-> 70] >>

\* C7: the returned sequence is sorted non-increasing by score.
C7_SortedNonIncreasing ==
    (req.pc = "done" /\ req.searched) =>
      \A j \in 1..(Len(req.results) - 1) :
        req.results[j].score >= req.results[j + 1].score
C7_Witness ==
    /\ Ranked /\ Len(req.results) = 3
    /\ req.results[1].score > req.results[2].score
    /\ req.results[2].score > req.results[3].score
    /\ req.embeddings[1].filename = req.results[3].filename

\* C8 (as claimed): among results with equal score the entries appear in
\* identifier order, so the result does not depend on the insertion order
\* of the store.
RECURSIVE SortedById(_)
SortedById(d) ==
    IF d = <<>> THEN <<>>
    ELSE LET m == CHOOSE i \in 1..Len(d) :
                    \A j \in 1..Len(d) : d[i].filename <= d[j].filename
         IN <<d[m]>> \o SortedById(SubSeq(d, 1, m - 1) \o SubSeq(d, m + 1, Len(d)))
C9_QueryFailureGivesNoResults ==
    (req.pc = "done" /\ req.searched /\ ~req.text_emb.some)
        => (req.results = <<>> /\ req.error = "none")
C9_Witness ==
    /\ req.pc = "done" /\ req.searched /\ ~req.text_emb.some
    /\ Len(req.embeddings) >= 2 /\ req.k >= 1
    /\ req.results = <<>> /\ req.error = "none"

\* C10: load fails with ValueError for every content that is neither a flat
\* mapping identifier->vector nor a list of {identifier, vector} records.
IsVector(val) == val.t = "vec"
Unsupported(f) ==
    /\ f.exists /\ f.closed
    /\ \/ f.kind = "scalar"
       \/ f.kind = "list" /\ \E i \in 1..Len(f.body) :
                               f.body[i].t # "pair" \/ ~IsVector(f.body[i].embedding)
       \/ f.kind = "dict" /\ \E i \in 1..Len(f.body) : ~IsVector(f.body[i].embedding)
C10_UnsupportedIsFormatError ==
    (req.pc \in {"search", "done"} /\ Unsupported(file))
        => (req.pc = "done" /\ ~req.searched /\ req.error = "ValueError")

\* ======================================================= claims on load
\* C11: load fails with FileNotFoundError whenever the store path does not
\* exist, before any parsing, and returns no store.
C11_MissingStoreIsNotFound ==
    [][ (req.pc = "idle" /\ req'.pc # "idle" /\ ~file.exists)
          => /\ req'.pc = "done"
             /\ req'.error = "FileNotFoundError"
             /\ ~req'.searched
             /\ req'.embeddings = <<>> ]_vars
\* a load that met no file while the first rebuild is still embedding.
C11_Witness ==
    /\ req.pc = "done" /\ req.error = "FileNotFoundError"
    /\ ~file.exists
    /\ reb.pc = "loop" /\ reb.i > 1

\* The mapping a store stands for (insertion order is not part of it).
AsMapping(d) ==
    [fn \in { d[i].filename : i \in 1..Len(d) } |-> d[PosIn(d, fn)].embedding]
\* The value of the last element of a body that carries the identifier fn.
LastValue(body, fn) ==
    LET last == CHOOSE i \in 1..Len(body) :
                  /\ body[i].filename = fn
                  /\ \A j \in (i + 1)..Len(body) : body[j].filename # fn
    IN body[last].embedding
\* The flat-object text of the mapping a body of records stands for.
FlatFile(body) ==
    LET ks == SortedSeq({ body[i].filename : i \in 1..Len(body) })
    IN File("dict", [i \in 1..Len(ks) |-> Pair(ks[i], LastValue(body, ks[i]))], TRUE)

\* C12: the flat-object text and the list-of-records text of one mapping
\* load into equal stores; when the list repeats an identifier the later
\* record wins.
C12_BothFormatsSameStore ==
    (req.pc = "search" /\ file.kind \in {"dict", "list"}) =>
      LET other == IF file.kind = "list" THEN FlatFile(file.body)
                   ELSE File("list", file.body, TRUE)
          r == LoadContent(other)
      IN /\ r.err = "none"
         /\ AsMapping(r.out) = AsMapping(req.embeddings)
         /\ \A i \in 1..Len(req.embeddings) :
              req.embeddings[i].embedding =
                TorchTensor(LastValue(file.body, req.embeddings[i].filename)).t
C12_Witness ==
    /\ req.pc = "search" /\ file.kind = "list" /\ Len(file.body) = 2
    /\ file.body[1].filename = file.body[2].filename
    /\ file.body[1].embedding # file.body[2].embedding
    /\ Len(req.embeddings) = 1
    /\ req.embeddings[1].embedding.v = file.body[2].embedding.v

\* C13: loading the file a rebuild has written returns exactly the
\* identifiers that were embedded, each with the vector that was embedded.
C13_RoundTrip ==
    [][ (req.pc = "read" /\ req'.pc # "read" /\ file.closed)
          => /\ req'.pc = "search"
             /\ Len(req'.embeddings) = Cardinality(Embedded(dir))
             /\ \A fn \in Embedded(dir) :
                  \E i \in 1..Len(req'.embeddings) :
                    /\ req'.embeddings[i].filename = fn
                    /\ req'.embeddings[i].embedding = Tensor(1, dir[fn].emb.v) ]_vars
C13_Witness ==
    /\ req.pc = "search" /\ Len(req.embeddings) = 2
    /\ file.closed /\ Len(file.body) = 2
    /\ Failed(dir) # {}
    /\ reb.pc = "idle"

\* C14: every store search operates on holds 1-D vectors of one fixed
\* length, the length of the query embedding.
C14_StoreDimensionInvariant ==
    req.pc = "search" =>
      \A i \in 1..Len(req.embeddings) : \A q \in Vecs :
        /\ req.embeddings[i].embedding.dim = 1
        /\ Len(req.embeddings[i].embedding.v) = Len(q)

\* C15: every call to the encoder is bounded, so every search whose query
\* went to the encoder eventually completes.
C15_EncoderCallCompletes == (req.pc = "encoding") ~> (req.pc = "done")

\* ===================================================== claims on upload
\* C16: when extract_images extracts no page, POST /embed-portfolio
\* answers HTTP 500 and leaves the persisted store untouched.
C16_NoPagesIs500 ==
    [][ (up.pc \in {"check", "embed"} /\ up.pages[1] = 0)
          => /\ file' = file
             /\ (up'.pc = "done" => up'.status = 500) ]_vars

\* C19: after every answered upload the identifiers of the persisted store
\* are exactly the files present in the pages directory that embedded
\* successfully, whichever upload wrote them.
C19_StoreIsWholeDirectory ==
    (up.pc = "done" /\ up.status = 200) =>
      /\ file.exists /\ file.closed /\ file.kind = "dict"
      /\ { file.body[j].filename : j \in 1..Len(file.body) } = Embedded(dir)
      /\ up.processed = Cardinality(Embedded(dir))
\* a one-page PDF was uploaded and the store still holds pages 2 and 3.
C19_Witness ==
    /\ up.pc = "done" /\ up.status = 200
    /\ up.opened /\ up.pages = <<1, 0>>
    /\ { file.body[j].filename : j \in 1..Len(file.body) } = {1, 2, 3}
    /\ file.body[1].embedding # file.body[2].embedding

\* ================================================ claims on /design/plan
\* The request passed the input validation.
ValidRequest ==
    /\ ~Blank(dp.address)
    /\ dp.area_sqm >= 50 /\ dp.area_sqm <= 10000
    /\ cfg.CORE_FEATURES_AVAILABLE

\* C17: without a configured API key every valid request, whatever the
\* import flags, uses the fallback bounding box, calls no geocoder and
\* succeeds with fallback_used = true.
C17_FallbackMode ==
    (dp.pc = "done" /\ ~cfg.API_CONFIGURED /\ ValidRequest) =>
      /\ dp.status = 200
      /\ dp.parcel_bbox = FallbackBbox
      /\ ~dp.geocoded
      /\ dp.fallback_used

\* C18: a blank address, then an area outside [50, 10000], answer 400 and
\* then unavailable core features answer 500, in that order of precedence;
\* such a request is answered by the validation step itself, attempts no
\* geocoding and creates or changes no file.
C18_ValidationFirst ==
    [][ (dp.pc # "done" /\ dp'.pc = "done" /\ ~ValidRequest') =>
          /\ dp.pc = "idle"
          /\ outputs' = outputs
          /\ ~dp'.geocoded /\ dp'.written = {}
          /\ IF Blank(dp'.address)
             THEN dp'.status = 400 /\ dp'.detail = "Address cannot be empty"
             ELSE IF dp'.area_sqm < 50 \/ dp'.area_sqm > 10000
             THEN /\ dp'.status = 400
                  /\ dp'.detail = "Building area must be between 50 and 10,000 sqm"
             ELSE /\ dp'.status = 500
                  /\ dp'.detail = "Core generation features not available" ]_vars
\* a blank address with an area out of range is refused for its address,
\* with files of earlier requests in place.
C18_Witness ==
    /\ dp.pc = "done" /\ dp.status = 400
    /\ Blank(dp.address) /\ dp.area_sqm = 10001
    /\ dp.detail = "Address cannot be empty"
    /\ outputs # {}

\* =========================================== claims on /recommend-style
\* C20: for a store containing the reference and top_k >= 0 the answer
\* holds min(top_k, |store| - 1) entries, none the reference, each an image
\* of the store with its similarity, by non-increasing similarity; a
\* reference absent from the store gives an error and no list.
C20_ReferenceNeverRecommended ==
    rs.pc = "done" =>
      IF HasKey(EMBEDDINGS, rs.reference)
      THEN rs.top_k >= 0 =>
             LET r == rs.recommended_styles IN
             /\ rs.status = 200
             /\ Len(r) = Min(rs.top_k, Len(EMBEDDINGS) - 1)
             /\ \A i \in 1..Len(r) :
                  /\ r[i].filename # rs.reference
                  /\ HasKey(EMBEDDINGS, r[i].filename)
                  /\ r[i].score = Cosine(Lookup(EMBEDDINGS, rs.reference),
                                         Lookup(EMBEDDINGS, r[i].filename))
             /\ \A i, j \in 1..Len(r) :
                  i < j => r[i].score >= r[j].score /\ r[i].filename # r[j].filename
      ELSE rs.status = 500 /\ rs.error = "KeyError" /\ rs.recommended_styles = <<>>
\* a store of three with an image parallel to the reference: the reference
\* would tie for the first place, and two images are returned for top_k = 3.
C20_Witness ==
    /\ rs.pc = "done" /\ rs.status = 200
    /\ Len(EMBEDDINGS) = 3 /\ rs.top_k = 3
    /\ Len(rs.recommended_styles) = 2
    /\ rs.recommended_styles[1].score = 1000
    /\ rs.recommended_styles[2].score < 1000

\* Names of the four files of the request being answered.
PlanPng == dp'.stem \o <<".png">>
StyledPng == dp'.stem \o <<"_styled", ".png">>
DxfPath == dp'.stem \o <<"_styled", ".dxf">>
IfcPath == dp'.stem \o <<"_styled", ".ifc">>
IsCad(f) == f.name[Len(f.name)] \in {".dxf", ".ifc"}

\* C21: a DXF or IFC file, once written, is never changed or removed by a
\* later request; a successful request writes the DXF and the IFC of its
\* stem exactly when that file was absent, writes the PNG and the styled
\* PNG every time, and touches no file of another stem.
C21_CadFilesWrittenOnce ==
    [][ /\ \A f \in outputs : IsCad(f) => f \in outputs'
        /\ (dp.pc = "generate" /\ dp'.pc = "done" /\ dp'.status = 200) =>
             /\ {PlanPng, StyledPng} \subseteq dp'.written
             /\ Exists(outputs', PlanPng) /\ Exists(outputs', StyledPng)
             /\ Exists(outputs', DxfPath) /\ Exists(outputs', IfcPath)
             /\ (DxfPath \in dp'.written) <=> ~Exists(outputs, DxfPath)
             /\ (IfcPath \in dp'.written) <=> ~Exists(outputs, IfcPath)
             /\ dp'.written \subseteq {PlanPng, StyledPng, DxfPath, IfcPath}
             /\ \A f \in outputs : f.name \notin dp'.written => f \in outputs' ]_vars
\* a later successful request of the same stem carried another bounding
\* box: only the two PNG files were written and the DXF keeps the first box.
C21_Witness ==
    /\ dp.pc = "done" /\ dp.status = 200
    /\ Cardinality(dp.written) = 2
    /\ Exists(outputs, dp.stem \o <<"_styled", ".dxf">>)
    /\ Content(outputs, dp.stem \o <<"_styled", ".dxf">>) # <<"dxf", dp.parcel_bbox>>
    /\ Content(outputs, dp.stem \o <<"_styled", ".ifc">>)
         = Content(outputs, dp.stem \o <<"_styled", ".dxf">>)

====
